---- MODULE Spec2Model ----
(***************************************************************************)
(* The content access layer of the blog (services/supabaseService.ts):     *)
(* six operations that query the posts, comments and profiles tables of a  *)
(* remote store and join their rows in memory.                             *)
(*                                                                         *)
(* The store is modelled as three tables.  Every query a call issues is    *)
(* appended, with its response, to the log `queries`; a query fails when   *)
(* the store reports an error for it (a fault drawn per call), and a       *)
(* .single() query also fails when it finds no row.                        *)
(***************************************************************************)
EXTENDS Integers, Sequences, FiniteSets, TLC

\* ------------------------------------------------------------------ bounds
MaxRows == 3            \* rows ever inserted into posts and comments together
MaxQueryLen == 1        \* characters of a search query

\* ------------------------------------------------------------ input domains
UserIds == {"u1", "u2"}             \* ids used as author_id / user_id
\* The texts posts are written with, each column one word: a post that holds
\* the word "a" in both columns, one in its title only, one in its content only.
Texts == {[title |-> <<"a">>, content |-> <<"a">>],
          [title |-> <<"a">>, content |-> <<"b">>],
          [title |-> <<"b">>, content |-> <<"a">>]}
QueryChars == {" ", "a"}            \* the characters of a search query
WhiteSpace == {" "}

VARIABLES
    posts,      \* table posts: rows in insertion order
    comments,   \* table comments: rows in insertion order
    profiles,   \* table profiles: rows, owned by the auth system
    op,         \* the operation of the last call ("none" before any call)
    arg,        \* its argument
    queries,    \* the queries it issued, in order, each with its response
    ret,        \* what it returned: [kind |-> "none" | "null" | "post" | "list" | "comment", value]
    raised,     \* TRUE when it threw instead of returning
    search,     \* the searchPosts call awaiting its two searches: query and the two responses
    pending,    \* which of its two searches are still in flight
    arrivals,   \* the order in which its searches completed
    title,          \* EditorPage: the title field
    content,        \* EditorPage: the content field
    summary,        \* EditorPage: the summary field
    isSummarizing,  \* Editor: the summarize button shows its spinner
    isPublishing,   \* EditorPage: the publish button shows its spinner
    summarizeCall,  \* the last handleSummarize call: phase, content passed, service, outcome
    publishCall,    \* the last handlePublish call: phase and the post data passed
    location,       \* the route shown: the editor, or a post page
    theme,          \* ThemeProvider: the theme state as last rendered
    storedTheme,    \* localStorage 'theme' (NoTheme when absent)
    darkClass,      \* whether the document element has the class 'dark'
    prefersDark,    \* matchMedia('(prefers-color-scheme: dark)').matches
    effects,        \* the effects of the last render still to run, in order
    updates,        \* the setTheme calls queued for the next render, in order
    toggles,        \* how many times toggleTheme was called
    storedAtMount,  \* what localStorage 'theme' held when the provider mounted
    authSession,    \* the session the auth client holds (null when signed out)
    session,        \* AuthProvider: the session state
    user,           \* AuthProvider: the user state
    authLoading,    \* AuthProvider: the loading state
    lookups,        \* the setAuthData calls awaiting their profile lookup
    initialSession, \* how far getInitialSession has come: "awaiting", "lookup", "done"
    authEvents,     \* how many auth state changes were delivered
    routeId,        \* PostPage: the id parameter of the route
    shownPost,      \* PostPage: the post state
    pageLoading,    \* PostPage: the loading state
    fetches,        \* the fetchPost calls awaiting getPostById: number and id
    started,        \* how many fetchPost calls were started
    shownFrom,      \* the number of the fetchPost call that last set the post
    isSubmitting,   \* PostPage: the comment button shows its spinner
    commentCall     \* the handleCommentSubmit call awaiting addComment

storeVars == <<posts, comments, profiles>>
callVars == <<op, arg, queries, ret, raised>>
searchVars == <<search, pending, arrivals>>
editorVars == <<title, content, summary, isSummarizing, isPublishing, summarizeCall, publishCall, location>>

\* The state of the user interface, and all of it but one part.
themeVars == <<theme, storedTheme, darkClass, prefersDark, effects, updates, toggles, storedAtMount>>
authVars == <<authSession, session, user, authLoading, lookups, initialSession, authEvents>>
pageVars == <<routeId, shownPost, pageLoading, fetches, started, shownFrom, isSubmitting, commentCall>>
uiVars == <<searchVars, editorVars, themeVars, authVars, pageVars>>
notSearch == <<editorVars, themeVars, authVars, pageVars>>
notEditor == <<searchVars, themeVars, authVars, pageVars>>
notTheme == <<searchVars, editorVars, authVars, pageVars>>
notAuth == <<searchVars, editorVars, themeVars, pageVars>>
notPage == <<searchVars, editorVars, themeVars, authVars>>
vars == <<storeVars, callVars, uiVars>>

\* --------------------------------------------------------------- JS values
Null == [null |-> TRUE]             \* null / undefined

Range(s) == {s[i] : i \in 1..Len(s)}

RECURSIVE Distinct(_)
\* [...new Set(array)]: the distinct values, in order of first occurrence
Distinct(s) ==
    IF s = <<>> THEN <<>>
    ELSE LET front == Distinct(SubSeq(s, 1, Len(s) - 1))
             x == s[Len(s)]
         IN  IF x \in Range(front) THEN front ELSE Append(front, x)

\* new Map(entries) as the sequence of its [key, value] entries in insertion
\* order: a key set again keeps its position and takes the new value
MapSet(m, k, v) ==
    IF \E i \in 1..Len(m) : m[i].key = k
    THEN [i \in 1..Len(m) |-> IF m[i].key = k THEN [key |-> k, value |-> v] ELSE m[i]]
    ELSE Append(m, [key |-> k, value |-> v])

RECURSIVE MapById(_)
\* new Map(rows.map(r => [r.id, r]))
MapById(rows) ==
    IF rows = <<>> THEN <<>>
    ELSE LET r == rows[Len(rows)]
         IN  MapSet(MapById(SubSeq(rows, 1, Len(rows) - 1)), r.id, r)

\* Map.prototype.get: undefined when the key is absent
MapGet(m, k) ==
    IF \E i \in 1..Len(m) : m[i].key = k
    THEN m[CHOOSE i \in 1..Len(m) : m[i].key = k].value
    ELSE Null

\* Array.from(map.values())
MapValues(m) == [i \in 1..Len(m) |-> m[i].value]

\* Mutant of OrElse: the fallback is forgotten.
OrElseNoFallback(a, b) == a

\* a || b on objects: b when a is null / undefined
OrElse(a, b) == IF a = Null THEN b ELSE a

\* { ...row, author: profile }
WithAuthor(row, profile) ==
    [id |-> row.id, title |-> row.title, content |-> row.content,
     summary |-> row.summary, author_id |-> row.author_id,
     created_at |-> row.created_at, author |-> profile]

\* ------------------------------------------------------------------ store
\* A response of the store client: { data, error }; data is null on error.
Failed == [error |-> TRUE, data |-> Null]
Ok(d) == [error |-> FALSE, data |-> d]

\* An issued query with its response, as logged.
Query(table, verb, filter, resp) ==
    [table |-> table, verb |-> verb, filter |-> filter,
     error |-> resp.error, data |-> resp.data]

Reverse(s) == [i \in 1..Len(s) |-> s[Len(s) + 1 - i]]

\* The columns 'id, name, image' of a profile row.
Columns(p) == [id |-> p.id, name |-> p.name, image |-> p.image]

\* .select('id, name, image') on profile rows
SelectColumns(rows) == [i \in 1..Len(rows) |-> Columns(rows[i])]

\* from('posts').select('*').order('created_at', {ascending: false})
\* (rows are inserted with increasing created_at, so descending is reversed)
SelectPostsNewestFirst(fault) ==
    IF fault THEN Failed ELSE Ok(Reverse(posts))

\* from('profiles').select('id, name, image').in('id', ids)
SelectProfilesIn(ids, fault) ==
    IF fault THEN Failed
    ELSE Ok(SelectColumns(SelectSeq(profiles, LAMBDA p : p.id \in Range(ids))))

\* .single() on the rows a query selects: an error unless exactly one row
Single(rows, fault) ==
    IF fault \/ Len(rows) # 1 THEN Failed ELSE Ok(rows[1])

\* from('profiles').select('id, name, image').eq('id', id).single()
SelectProfileSingle(id, fault) ==
    Single(SelectColumns(SelectSeq(profiles, LAMBDA p : p.id = id)), fault)

\* from('profiles').select('*').eq('id', id).single()
SelectProfileRowSingle(id, fault) ==
    Single(SelectSeq(profiles, LAMBDA p : p.id = id), fault)

\* from('posts').select('*').eq('id', id).single()
SelectPostSingle(id, fault) ==
    Single(SelectSeq(posts, LAMBDA p : p.id = id), fault)

\* from('posts').select('*').eq('author_id', authorId).order('created_at', {ascending: false})
SelectPostsByAuthorNewestFirst(authorId, fault) ==
    IF fault THEN Failed
    ELSE Ok(Reverse(SelectSeq(posts, LAMBDA p : p.author_id = authorId)))

\* Whether rows are in non-decreasing created_at order.
Ascending(rows) ==
    \A i \in 1..Len(rows) : \A j \in i..Len(rows) : rows[i].created_at <= rows[j].created_at

\* The orders in which the store may deliver the comments of a post under
\* .order('created_at', {ascending: true}): every arrangement of the post's
\* rows that is ascending (rows with equal created_at come in either order).
CommentOrders(id) ==
    LET mine == {i \in 1..Len(comments) : comments[i].post_id = id}
        n == Cardinality(mine)
    IN  {[k \in 1..n |-> comments[f[k]]] :
            f \in {g \in [1..n -> mine] :
                      /\ \A a, b \in 1..n : a # b => g[a] # g[b]
                      /\ Ascending([k \in 1..n |-> comments[g[k]]])}}

\* from('comments').select('*').eq('post_id', id).order('created_at', {ascending: true}),
\* delivered in the order `ordered` (one of CommentOrders(id))
SelectCommentsOldestFirst(ordered, fault) ==
    IF fault THEN Failed ELSE Ok(ordered)

\* ----------------------------------------------------------------- getPosts
\* [...new Set(postsData.map(p => p.author_id))]
AuthorIds(postsData) == Distinct([i \in 1..Len(postsData) |-> postsData[i].author_id])

\* Mutant of UnknownAuthor: the list paths use the placeholder name of the
\* single-post path.
UnknownAuthorUnified(post) == [id |-> post.author_id, name |-> "Unknown"]

\* { id: post.author_id, name: 'Unknown Author' }
UnknownAuthor(post) == [id |-> post.author_id, name |-> "Unknown Author"]
Unknown(id) == [id |-> id, name |-> "Unknown"]

\* postsData.map(post => ({...post, author: {id: post.author_id, name: 'Unknown Author'}}))
AllUnknownAuthors(postsData) ==
    [i \in 1..Len(postsData) |-> WithAuthor(postsData[i], UnknownAuthor(postsData[i]))]

\* Mutant of JoinAuthors: an inner join, posts without a profile are dropped.
JoinAuthorsInner(postsData, profilesData) ==
    LET profilesById == MapById(profilesData)
        known == SelectSeq(postsData, LAMBDA post : MapGet(profilesById, post.author_id) # Null)
    IN  [i \in 1..Len(known) |-> WithAuthor(known[i], MapGet(profilesById, known[i].author_id))]

\* postsData.map(post => ({...post, author: profilesById.get(post.author_id) || {...}}))
JoinAuthors(postsData, profilesData) ==
    LET profilesById == MapById(profilesData)
    IN  [i \in 1..Len(postsData) |->
            WithAuthor(postsData[i],
                OrElse(MapGet(profilesById, postsData[i].author_id), UnknownAuthor(postsData[i])))]

Returned(kind, value, log) == [raised |-> FALSE, ret |-> [kind |-> kind, value |-> value], queries |-> log]
Thrown(log) == [raised |-> TRUE, ret |-> [kind |-> "none", value |-> Null], queries |-> log]

\* getPosts(); faults is the set of tables whose query the store fails
getPosts(faults) ==
    LET postsResp == SelectPostsNewestFirst("posts" \in faults)
        q1 == Query("posts", "select", "all", postsResp)
    IN  IF postsResp.error THEN Returned("list", <<>>, <<q1>>)
        ELSE
        LET postsData == postsResp.data
            authorIds == AuthorIds(postsData)
        IN  IF Len(authorIds) = 0 THEN Returned("list", <<>>, <<q1>>)
            ELSE
            LET profilesResp == SelectProfilesIn(authorIds, "profiles" \in faults)
                q2 == Query("profiles", "select", authorIds, profilesResp)
            IN  IF profilesResp.error
                THEN Returned("list", AllUnknownAuthors(postsData), <<q1, q2>>)
                ELSE Returned("list", JoinAuthors(postsData, profilesResp.data), <<q1, q2>>)

\* --------------------------------------------------------------- createPost
\* from('posts').insert([postData]).select().single(): the server assigns id
\* and created_at; on an error no row is stored
InsertedPost(postData) ==
    [id |-> Len(posts) + 1, title |-> postData.title, content |-> postData.content,
     summary |-> postData.summary, author_id |-> postData.author_id,
     created_at |-> Len(posts) + 1]

\* Mutant of OnProfileError: the failed profile lookup is thrown.
OnProfileErrorThrows(data, log) == Thrown(log)

\* if (profileError) return { ...data, author: { id: data.author_id, name: 'Unknown' } }
OnProfileError(data, log) ==
    Returned("post", WithAuthor(data, Unknown(data.author_id)), log)

createPost(postData, faults) ==
    LET insResp == IF "posts" \in faults THEN Failed ELSE Ok(InsertedPost(postData))
        q1 == Query("posts", "insert", postData, insResp)
    IN  IF insResp.error THEN Thrown(<<q1>>)
        ELSE
        LET data == insResp.data
            profileResp == SelectProfileRowSingle(data.author_id, "profiles" \in faults)
            q2 == Query("profiles", "single", data.author_id, profileResp)
        IN  IF profileResp.error
            THEN OnProfileError(data, <<q1, q2>>)
            ELSE Returned("post", WithAuthor(data, profileResp.data), <<q1, q2>>)

\* -------------------------------------------------------------- getPostById
\* { ...postData, author, comments }
WithThread(row, profile, thread) ==
    [id |-> row.id, title |-> row.title, content |-> row.content,
     summary |-> row.summary, author_id |-> row.author_id,
     created_at |-> row.created_at, author |-> profile, comments |-> thread]

\* { ...comment, user }
WithUser(comment, profile) ==
    [id |-> comment.id, post_id |-> comment.post_id, user_id |-> comment.user_id,
     text |-> comment.text, created_at |-> comment.created_at, user |-> profile]

\* Mutant of JoinUsers: the comments are hydrated newest first.
JoinUsersReversed(commentsData, usersById) ==
    LET newestFirst == Reverse(commentsData)
    IN  [i \in 1..Len(newestFirst) |->
            WithUser(newestFirst[i],
                OrElse(MapGet(usersById, newestFirst[i].user_id), Unknown(newestFirst[i].user_id)))]

\* Mutant of JoinUsers: comments whose user has no profile are dropped.
JoinUsersKnownOnly(commentsData, usersById) ==
    LET known == SelectSeq(commentsData, LAMBDA comment : MapGet(usersById, comment.user_id) # Null)
    IN  [i \in 1..Len(known) |-> WithUser(known[i], MapGet(usersById, known[i].user_id))]

\* commentsData.map(comment => ({...comment, user: usersById.get(comment.user_id) || {...}}))
JoinUsers(commentsData, usersById) ==
    [i \in 1..Len(commentsData) |->
        WithUser(commentsData[i],
            OrElse(MapGet(usersById, commentsData[i].user_id), Unknown(commentsData[i].user_id)))]

\* Mutant of OnCommentsError: a failed comments query gives up the post.
OnCommentsErrorNull(postData, authorData, log) == Returned("null", Null, log)

\* if (commentsError) return { ...postData, author: authorData || {...}, comments: [] }
OnCommentsError(postData, authorData, log) ==
    Returned("post",
        WithThread(postData, OrElse(authorData, Unknown(postData.author_id)), <<>>), log)

\* getPostById(id); ordered is the order in which the store delivers the
\* post's comments
getPostById(id, faults, ordered) ==
    LET postResp == SelectPostSingle(id, "post" \in faults)
        q1 == Query("posts", "single", id, postResp)
    IN  IF postResp.error THEN Returned("null", Null, <<q1>>)
        ELSE IF postResp.data = Null THEN Returned("null", Null, <<q1>>)
        ELSE
        LET postData == postResp.data
            authorResp == SelectProfileSingle(postData.author_id, "author" \in faults)
            q2 == Query("profiles", "single", postData.author_id, authorResp)
            authorData == authorResp.data
            commentsResp == SelectCommentsOldestFirst(ordered, "comments" \in faults)
            q3 == Query("comments", "select", id, commentsResp)
        IN  IF commentsResp.error
            THEN OnCommentsError(postData, authorData, <<q1, q2, q3>>)
            ELSE
            LET commentsData == commentsResp.data
                userIds == Distinct([i \in 1..Len(commentsData) |-> commentsData[i].user_id])
                usersResp == SelectProfilesIn(userIds, "users" \in faults)
                q4 == Query("profiles", "select", userIds, usersResp)
                usersById == IF Len(userIds) > 0 /\ ~usersResp.error
                             THEN MapById(usersResp.data) ELSE <<>>
                log == IF Len(userIds) > 0 THEN <<q1, q2, q3, q4>> ELSE <<q1, q2, q3>>
            IN  Returned("post",
                    WithThread(postData, OrElse(authorData, Unknown(postData.author_id)),
                               JoinUsers(commentsData, usersById)),
                    log)

\* --------------------------------------------------------- getPostsByAuthor
\* Mutant of OnAuthorError: the author's posts are listed under a placeholder,
\* as getPosts does.
OnAuthorErrorPlaceholder(authorId, log) ==
    Returned("list",
        AllUnknownAuthors(Reverse(SelectSeq(posts, LAMBDA p : p.author_id = authorId))), log)

\* Mutant of OnAuthorError: the profile error is thrown to the caller.
OnAuthorErrorThrows(authorId, log) == Thrown(log)

\* if (authorError) return []
OnAuthorError(authorId, log) == Returned("list", <<>>, log)

getPostsByAuthor(authorId, faults) ==
    LET authorResp == SelectProfileSingle(authorId, "author" \in faults)
        q1 == Query("profiles", "single", authorId, authorResp)
    IN  IF authorResp.error THEN OnAuthorError(authorId, <<q1>>)
        ELSE
        LET postsResp == SelectPostsByAuthorNewestFirst(authorId, "posts" \in faults)
            q2 == Query("posts", "select", authorId, postsResp)
        IN  IF postsResp.error THEN Returned("list", <<>>, <<q1, q2>>)
            ELSE Returned("list",
                     [i \in 1..Len(postsResp.data) |-> WithAuthor(postsResp.data[i], authorResp.data)],
                     <<q1, q2>>)

\* -------------------------------------------------------------- searchPosts
RECURSIVE TrimStart(_)
TrimStart(s) ==
    IF s # <<>> /\ Head(s) \in WhiteSpace THEN TrimStart(Tail(s)) ELSE s

RECURSIVE TrimEnd(_)
TrimEnd(s) ==
    IF s # <<>> /\ s[Len(s)] \in WhiteSpace THEN TrimEnd(SubSeq(s, 1, Len(s) - 1)) ELSE s

\* String.prototype.trim
Trim(s) == TrimEnd(TrimStart(s))

\* Index of the first character of s that is in seps, 0 when there is none.
FirstIn(s, seps) ==
    IF \E i \in 1..Len(s) : s[i] \in seps
    THEN CHOOSE i \in 1..Len(s) : s[i] \in seps /\ \A j \in 1..(i - 1) : s[j] \notin seps
    ELSE 0

RECURSIVE SkipIn(_, _)
\* s without its leading run of characters of seps
SkipIn(s, seps) ==
    IF s # <<>> /\ Head(s) \in seps THEN SkipIn(Tail(s), seps) ELSE s

RECURSIVE SplitRuns(_, _)
\* s.split(/[seps]+/): the pieces between the runs of separators; a leading or
\* trailing run leaves an empty piece, and "" splits into [""]
SplitRuns(s, seps) ==
    LET i == FirstIn(s, seps)
    IN  IF i = 0 THEN <<s>>
        ELSE <<SubSeq(s, 1, i - 1)>> \o SplitRuns(SkipIn(SubSeq(s, i, Len(s)), seps), seps)

RECURSIVE Join(_, _)
\* Array.prototype.join
Join(parts, sep) ==
    IF Len(parts) = 0 THEN <<>>
    ELSE IF Len(parts) = 1 THEN parts[1]
    ELSE parts[1] \o sep \o Join(Tail(parts), sep)

\* query.trim().split(/\s+/).join(' | ')
FormatQuery(query) == Join(SplitRuns(Trim(query), WhiteSpace), <<" ", "|", " ">>)

\* The lexemes the store's plain full-text parser finds in a query text: its
\* words, white space and punctuation dropped.
Lexemes(text) ==
    SelectSeq(SplitRuns(text, WhiteSpace \cup {"|"}), LAMBDA w : w # <<>>)

\* Whether a one-word column text matches a plain full-text query: the query
\* has a lexeme and the text holds every lexeme of it.
Matches(text, formattedQuery) ==
    LET lex == Lexemes(formattedQuery)
    IN  Len(lex) > 0 /\ \A i \in 1..Len(lex) : lex[i] = text

\* from('posts').select('*').textSearch(column, formattedQuery, {type: 'plain'}):
\* the matching rows, in table order (the query asks for no order)
TextSearch(column, formattedQuery, fault) ==
    IF fault THEN Failed
    ELSE Ok(SelectSeq(posts, LAMBDA p :
                Matches(IF column = "title" THEN p.title ELSE p.content, formattedQuery)))

\* Mutant of MergeById: the two result lists are concatenated as they are.
MergeNoDedupe(titleResults, contentResults) == titleResults \o contentResults

\* Array.from(new Map([...titleResults, ...contentResults].map(post => [post.id, post])).values())
MergeById(titleResults, contentResults) ==
    MapValues(MapById(titleResults \o contentResults))

\* resp.data || []: the rows of a response, none when it carries no data
RowsOrNone(resp) == IF resp.error THEN <<>> ELSE resp.data

\* Mutant of MergedResults: a failure of either query empties the search.
MergedResultsAllOrNothing(titleSearch, contentSearch) ==
    IF titleSearch.error \/ contentSearch.error THEN <<>>
    ELSE MergeById(titleSearch.data, contentSearch.data)

\* titleResults, contentResults and their merge into postsData
MergedResults(titleSearch, contentSearch) ==
    MergeById(RowsOrNone(titleSearch), RowsOrNone(contentSearch))

\* if (!query) return []
IsEmptyQuery(query) == query = <<>>

\* searchPosts from the point where Promise.all has resolved
AfterSearches(formattedQuery, titleSearch, contentSearch, faults) ==
    LET q1 == Query("posts", "textSearch.title", formattedQuery, titleSearch)
        q2 == Query("posts", "textSearch.content", formattedQuery, contentSearch)
        postsData == MergedResults(titleSearch, contentSearch)
    IN  IF Len(postsData) = 0 THEN Returned("list", <<>>, <<q1, q2>>)
        ELSE
        LET authorIds == AuthorIds(postsData)
            profilesResp == SelectProfilesIn(authorIds, "profiles" \in faults)
            q3 == Query("profiles", "select", authorIds, profilesResp)
        IN  IF profilesResp.error
            THEN Returned("list", AllUnknownAuthors(postsData), <<q1, q2, q3>>)
            ELSE Returned("list", JoinAuthors(postsData, profilesResp.data), <<q1, q2, q3>>)

searchPosts(query, faults) ==
    IF IsEmptyQuery(query) THEN Returned("list", <<>>, <<>>)
    ELSE
    LET formattedQuery == FormatQuery(query)
        titleSearch == TextSearch("title", formattedQuery, "title" \in faults)
        contentSearch == TextSearch("content", formattedQuery, "content" \in faults)
    IN  AfterSearches(formattedQuery, titleSearch, contentSearch, faults)

\* Mutant of PromiseAll: the results are handed over in completion order.
PromiseAllInArrivalOrder(responses, completed) ==
    <<responses[completed[1]], responses[completed[2]]>>

\* await Promise.all([title search, content search]): the results in the
\* order of the array, whatever the order of completion
PromiseAll(responses, completed) == <<responses.title, responses.content>>

\* --------------------------------------------------------------- addComment
\* The created_at the server may give a new comment: the clock does not run
\* backwards, and two comments may fall on the same instant.
CommentStamps ==
    IF comments = <<>> THEN {1}
    ELSE {comments[Len(comments)].created_at, comments[Len(comments)].created_at + 1}

\* from('comments').insert([{post_id, user_id, text}]).select().single()
InsertedComment(commentData, at) ==
    [id |-> Len(comments) + 1, post_id |-> commentData.postId,
     user_id |-> commentData.user_id, text |-> commentData.text, created_at |-> at]

\* Mutant of addComment: a failed insert is tried a second time.
addCommentRetries(commentData, faults, at) ==
    LET insResp == IF "comments" \in faults THEN Failed
                   ELSE Ok(InsertedComment(commentData, at))
        q1 == Query("comments", "insert", commentData, insResp)
    IN  IF insResp.error THEN Thrown(<<q1, q1>>)
        ELSE Returned("comment", insResp.data, <<q1>>)

\* Mutant of addComment: the insert error is logged and not thrown.
addCommentSwallows(commentData, faults, at) ==
    LET insResp == IF "comments" \in faults THEN Failed
                   ELSE Ok(InsertedComment(commentData, at))
        q1 == Query("comments", "insert", commentData, insResp)
    IN  Returned("comment", insResp.data, <<q1>>)

addComment(commentData, faults, at) ==
    LET insResp == IF "comments" \in faults THEN Failed
                   ELSE Ok(InsertedComment(commentData, at))
        q1 == Query("comments", "insert", commentData, insResp)
    IN  IF insResp.error THEN Thrown(<<q1>>)
        ELSE Returned("comment", insResp.data, <<q1>>)

\* ------------------------------------------------------------------ actions
Rows == Len(posts) + Len(comments)

\* No call is in progress: the layer keeps no state of its own between calls.
Idle == op = "none"

Finish(name, a, out) ==
    /\ Idle
    /\ op' = name
    /\ arg' = a
    /\ queries' = out.queries
    /\ ret' = out.ret
    /\ raised' = out.raised

GetPosts ==
    \E faults \in SUBSET {"posts", "profiles"} :
        /\ Finish("getPosts", Null, getPosts(faults))
        /\ UNCHANGED <<posts, comments, profiles, uiVars>>

CreatePost ==
    \E text \in Texts, author_id \in UserIds, faults \in SUBSET {"posts", "profiles"} :
        LET postData == [title |-> text.title, content |-> text.content,
                         summary |-> "s", author_id |-> author_id]
            out == createPost(postData, faults)
        IN  /\ Rows < MaxRows
            /\ Finish("createPost", postData, out)
            /\ posts' = IF out.queries[1].error THEN posts
                        ELSE Append(posts, InsertedPost(postData))
            /\ UNCHANGED <<comments, profiles, uiVars>>

GetPostById ==
    \E id \in 1..(Len(posts) + 1), faults \in SUBSET {"post", "author", "comments", "users"} :
        \E ordered \in CommentOrders(id) :
            /\ Finish("getPostById", id, getPostById(id, faults, ordered))
            /\ UNCHANGED <<posts, comments, profiles, uiVars>>

GetPostsByAuthor ==
    \E authorId \in UserIds, faults \in SUBSET {"author", "posts"} :
        /\ Finish("getPostsByAuthor", authorId, getPostsByAuthor(authorId, faults))
        /\ UNCHANGED <<posts, comments, profiles, uiVars>>

RECURSIVE SeqsUpTo(_, _)
\* The sequences over S of length at most n.
SeqsUpTo(S, n) ==
    IF n = 0 THEN {<<>>}
    ELSE LET shorter == SeqsUpTo(S, n - 1)
         IN  shorter \cup {Append(q, c) : q \in shorter, c \in S}

SearchPosts ==
    \E query \in SeqsUpTo(QueryChars, MaxQueryLen), faults \in SUBSET {"title", "content", "profiles"} :
        /\ Finish("searchPosts", query, searchPosts(query, faults))
        /\ UNCHANGED <<posts, comments, profiles, uiVars>>

AddComment ==
    \E postId \in 1..Len(posts), user_id \in UserIds, faults \in SUBSET {"comments"} :
        \E at \in CommentStamps :
            LET commentData == [postId |-> postId, user_id |-> user_id, text |-> "t"]
                out == addComment(commentData, faults, at)
            IN  /\ Rows < MaxRows
                /\ Finish("addComment", commentData, out)
                /\ comments' = IF out.queries[1].error THEN comments
                               ELSE Append(comments, InsertedComment(commentData, at))
                /\ UNCHANGED <<posts, profiles, uiVars>>

\* The caller's await resumes with the outcome of the call; nothing of the
\* call outlives it.
Taken ==
    /\ ~Idle
    /\ op' = "none"
    /\ arg' = Null
    /\ queries' = <<>>
    /\ ret' = [kind |-> "none", value |-> Null]
    /\ raised' = FALSE
    /\ UNCHANGED storeVars

Resume == Taken /\ UNCHANGED uiVars

\* localStorage.getItem('theme') when no theme is stored: null, which is
\* falsy as the empty string is
NoTheme == ""

\* An effect of a render, with the theme that render saw.
Effect(name, rendered) == [effect |-> name, theme |-> rendered]

\* ThemeProvider after its first render: theme is 'light' and both effects
\* are still to run, in the order of their declaration
ThemeProviderMounts(stored, prefers, class) ==
    /\ theme = "light"
    /\ storedTheme = stored
    /\ storedAtMount = stored
    /\ prefersDark = prefers
    /\ darkClass = class
    /\ effects = <<Effect("init", "light"), Effect("sync", "light")>>
    /\ updates = <<>>
    /\ toggles = 0

\* AuthProvider after its first render and its effect: getSession is in
\* flight and the listener is subscribed; the auth client holds `held`
AuthProviderMounts(held) ==
    /\ authSession = held
    /\ session = Null
    /\ user = Null
    /\ authLoading = TRUE
    /\ lookups = {}
    /\ initialSession = "awaiting"
    /\ authEvents = 0

\* The sessions the auth client may hold: of a user with a profile, and of a
\* user without one, with and without an e-mail address.
AuthSessions == {[user |-> "u1", email |-> "ann@example.org"],
                 [user |-> "u2", email |-> "bob@example.org"],
                 [user |-> "u2", email |-> ""]}

\* { id: session.user.id, name: session.user.email || 'New User', image: undefined }
FallbackUser(s) == [id |-> s.user, name |-> IF s.email # "" THEN s.email ELSE "New User"]

\* AuthProvider once it has settled on the session s: user is the profile of
\* the session's user, or the fallback when there is none
AuthProviderSettled(s) ==
    /\ authSession = s
    /\ session = s
    /\ user = IF \E i \in 1..Len(profiles) : profiles[i].id = s.user
              THEN profiles[CHOOSE i \in 1..Len(profiles) : profiles[i].id = s.user]
              ELSE FallbackUser(s)
    /\ authLoading = FALSE
    /\ lookups = {}
    /\ initialSession = "done"
    /\ authEvents = 0

\* PostPage after its first render and its effect on the route /post/id:
\* the first fetchPost call awaits getPostById
PostPageMounts(id) ==
    /\ routeId = id
    /\ shownPost = Null
    /\ pageLoading = TRUE
    /\ fetches = {[n |-> 1, id |-> id]}
    /\ started = 1
    /\ shownFrom = 0
    /\ isSubmitting = FALSE
    /\ commentCall = Null

\* No post, no comment, and the profile of one user.
InitStore ==
    /\ posts = <<>>
    /\ comments = <<>>
    /\ profiles = <<[id |-> "u1", name |-> "Ann", image |-> "ann.png"]>>

\* No call is running, no search, and the editor is empty.
InitIdle ==
    /\ op = "none"
    /\ arg = Null
    /\ queries = <<>>
    /\ ret = [kind |-> "none", value |-> Null]
    /\ raised = FALSE
    /\ search = Null
    /\ pending = {}
    /\ arrivals = <<>>
    /\ title = <<>>
    /\ content = <<>>
    /\ summary = ""
    /\ isSummarizing = FALSE
    /\ isPublishing = FALSE
    /\ summarizeCall = Null
    /\ publishCall = Null
    /\ location = [page |-> "editor"]

InitApp ==
    /\ InitStore
    /\ InitIdle
    /\ PostPageMounts(1)

Init ==
    /\ InitApp
    /\ ThemeProviderMounts(NoTheme, FALSE, FALSE)
    /\ AuthProviderMounts(Null)

Next ==
    \/ GetPosts
    \/ GetPostById
    \/ GetPostsByAuthor
    \/ CreatePost
    \/ SearchPosts
    \/ AddComment
    \/ Resume

Spec == Init /\ [][Next]_vars

\* ------------------------------------------------------------------ claims
Ids(rows) == [i \in 1..Len(rows) |-> rows[i].id]

\* The row of the posts table a returned post was built from.
PostRow(p) ==
    [id |-> p.id, title |-> p.title, content |-> p.content, summary |-> p.summary,
     author_id |-> p.author_id, created_at |-> p.created_at]

\* The row of the comments table a returned comment was built from.
CommentRow(c) ==
    [id |-> c.id, post_id |-> c.post_id, user_id |-> c.user_id, text |-> c.text,
     created_at |-> c.created_at]

\* C1: whenever the posts query of getPosts succeeds, getPosts returns the rows
\* that query returned, as many and in the same order (which are all the rows
\* of the posts table), whether the profile batch lookup fails, succeeds with
\* every profile or succeeds with profiles missing.
C1_FetchPostsKeepsRows ==
    (op = "getPosts" /\ ~queries[1].error) =>
        /\ ~raised
        /\ ret.kind = "list"
        /\ Len(ret.value) = Len(queries[1].data)
        /\ Len(ret.value) = Len(posts)
        /\ \A i \in 1..Len(ret.value) : PostRow(ret.value[i]) = queries[1].data[i]

\* getPosts has returned two posts of different authors after the profile
\* batch lookup failed.
C1_Witness ==
    /\ op = "getPosts"
    /\ Len(queries) = 2
    /\ queries[2].error
    /\ Len(ret.value) >= 2
    /\ ret.value[1].author_id # ret.value[2].author_id

\* C2: every post returned by getPosts, getPostById, getPostsByAuthor,
\* searchPosts and createPost has a non-null author, and every comment of a
\* post returned by getPostById has a non-null user.
C2_NoMissingAuthor ==
    /\ (op \in {"getPosts", "getPostsByAuthor", "searchPosts"} /\ ret.kind = "list") =>
            \A i \in 1..Len(ret.value) : ret.value[i].author # Null
    /\ (op \in {"getPostById", "createPost"} /\ ret.kind = "post") =>
            ret.value.author # Null
    /\ (op = "getPostById" /\ ret.kind = "post") =>
            \A i \in 1..Len(ret.value.comments) : ret.value.comments[i].user # Null

\* getPostById has returned a post with a comment although the author lookup
\* and the commenter batch lookup both failed.
C2_Witness ==
    /\ op = "getPostById"
    /\ ret.kind = "post"
    /\ Len(queries) = 4
    /\ queries[2].error
    /\ queries[4].error
    /\ Len(ret.value.comments) >= 1

\* C3: getPostById never raises; it returns null exactly when its post query
\* reports an error, which it does whenever no row has the id; otherwise it
\* returns the post of that id, whatever the author lookup, the comments
\* query and the commenter batch lookup report.
C3_NullOnlyWhenPostQueryFails ==
    op = "getPostById" =>
        /\ ~raised
        /\ ret.kind \in {"null", "post"}
        /\ (ret.kind = "null") <=> queries[1].error
        /\ (\A i \in 1..Len(posts) : posts[i].id # arg) => ret.kind = "null"
        /\ ret.kind = "post" => PostRow(ret.value) \in Range(posts) /\ ret.value.id = arg

\* getPostById has returned an existing post although its author lookup and
\* its comments query failed.
C3_Witness ==
    /\ op = "getPostById"
    /\ ret.kind = "post"
    /\ Len(queries) = 3
    /\ queries[2].error
    /\ queries[3].error

\* C4: the comments of a post returned by getPostById are in non-decreasing
\* created_at order, and when the comments query succeeds they are the rows it
\* delivered, all of them and in that order, which are the rows of the
\* comments table for that post.
C4_CommentsAscending ==
    (op = "getPostById" /\ ret.kind = "post") =>
        /\ Ascending(ret.value.comments)
        /\ ~queries[3].error =>
            /\ Len(ret.value.comments) = Len(queries[3].data)
            /\ \A i \in 1..Len(queries[3].data) :
                    CommentRow(ret.value.comments[i]) = queries[3].data[i]
            /\ {CommentRow(ret.value.comments[i]) : i \in 1..Len(ret.value.comments)}
                    = {c \in Range(comments) : c.post_id = arg}

\* getPostById has returned two comments written at different times, one by a
\* user with a profile and one attributed to a placeholder.
C4_Witness ==
    /\ op = "getPostById"
    /\ ret.kind = "post"
    /\ Len(ret.value.comments) >= 2
    /\ ret.value.comments[1].created_at < ret.value.comments[2].created_at
    /\ \E i, j \in 1..Len(ret.value.comments) :
            /\ ret.value.comments[i].user = Unknown(ret.value.comments[i].user_id)
            /\ ret.value.comments[j].user \in {Columns(p) : p \in Range(profiles)}

\* C5: searchPosts called with an empty query or with a query of white space
\* only returns the empty list and issues no query.
C5_BlankSearchIssuesNoQuery ==
    (op = "searchPosts" /\ Trim(arg) = <<>>) =>
        /\ ret = [kind |-> "list", value |-> <<>>]
        /\ queries = <<>>

\* C6: when searchPosts has issued its two searches, the ids it returns are
\* the ids of the title results together with those of the content results,
\* each once, and every returned post is a row of the posts table.
C6_SearchIsDedupUnion ==
    (op = "searchPosts" /\ Len(queries) >= 2) =>
        LET titleIds == Range(Ids(RowsOrNone(queries[1])))
            contentIds == Range(Ids(RowsOrNone(queries[2])))
        IN  /\ ret.kind = "list"
            /\ Range(Ids(ret.value)) = titleIds \cup contentIds
            /\ \A i, j \in 1..Len(ret.value) : i # j => ret.value[i].id # ret.value[j].id
            /\ \A i \in 1..Len(ret.value) : PostRow(ret.value[i]) \in Range(posts)

\* searchPosts has merged a title result and a content result that share a
\* post and differ in another.
C6_Witness ==
    /\ op = "searchPosts"
    /\ Len(queries) >= 2
    /\ ~queries[1].error
    /\ ~queries[2].error
    /\ Range(Ids(queries[1].data)) \cap Range(Ids(queries[2].data)) # {}
    /\ Range(Ids(queries[1].data)) # Range(Ids(queries[2].data))
    /\ Len(ret.value) >= 2

\* C7: createPost raises exactly when the insert fails, and then issues no
\* further query; when the insert succeeds it returns the inserted row, which
\* is the newest row of the posts table and carries the caller's fields, with
\* a non-null author, the placeholder {id: author_id, name: "Unknown"} when
\* the profile lookup fails.
C7_CreatePostRaisesIffInsertFails ==
    op = "createPost" =>
        /\ raised <=> queries[1].error
        /\ raised => Len(queries) = 1 /\ ret.kind = "none"
        /\ ~raised =>
            /\ ret.kind = "post"
            /\ Len(queries) = 2
            /\ PostRow(ret.value) = queries[1].data
            /\ PostRow(ret.value) = posts[Len(posts)]
            /\ ret.value.title = arg.title
            /\ ret.value.content = arg.content
            /\ ret.value.author_id = arg.author_id
            /\ ret.value.author # Null
            /\ queries[2].error =>
                    ret.value.author = [id |-> arg.author_id, name |-> "Unknown"]

\* createPost has returned the created post although the lookup of an
\* existing profile failed.
C7_Witness ==
    /\ op = "createPost"
    /\ ~raised
    /\ queries[2].error
    /\ \E i \in 1..Len(profiles) : profiles[i].id = arg.author_id

\* C8: addComment issues the insert and nothing else; it raises exactly when
\* the insert fails, then returns no value and leaves the tables as they were;
\* when the insert succeeds it returns the inserted row as stored, without a
\* user.
C8_AddCommentAllOrNothing ==
    /\ [](op = "addComment" =>
            /\ Len(queries) = 1
            /\ queries[1].table = "comments"
            /\ raised <=> queries[1].error
            /\ raised => ret.kind = "none"
            /\ ~raised =>
                /\ ret.kind = "comment"
                /\ ret.value = queries[1].data
                /\ ret.value = comments[Len(comments)]
                /\ DOMAIN ret.value = {"id", "post_id", "user_id", "text", "created_at"}
                /\ ret.value.post_id = arg.postId
                /\ ret.value.user_id = arg.user_id)
    /\ [][(op' = "addComment" /\ raised') => (comments' = comments /\ posts' = posts)]_vars

\* addComment has raised on a thread that already holds a comment.
C8_Witness ==
    /\ op = "addComment"
    /\ raised
    /\ \E i \in 1..Len(comments) : comments[i].post_id = arg.postId

\* C9: getPostsByAuthor returns the empty list, after the one query, whenever
\* the lookup of the author's profile fails, and a post it returns carries the
\* author's profile, never a placeholder; getPosts returns every post with the
\* placeholder {id: author_id, name: "Unknown Author"} when its profile batch
\* lookup fails.
C9_AuthorPageEmptyOnProfileFailure ==
    /\ (op = "getPostsByAuthor" /\ queries[1].error) =>
            /\ ~raised
            /\ ret = [kind |-> "list", value |-> <<>>]
            /\ Len(queries) = 1
    /\ (op = "getPostsByAuthor" /\ ret.kind = "list") =>
            \A i \in 1..Len(ret.value) :
                /\ ret.value[i].author.id = arg
                /\ ret.value[i].author \in {Columns(p) : p \in Range(profiles)}
    /\ (op = "getPosts" /\ Len(queries) = 2 /\ queries[2].error) =>
            /\ Len(ret.value) = Len(posts)
            /\ \A i \in 1..Len(ret.value) :
                    ret.value[i].author =
                        [id |-> ret.value[i].author_id, name |-> "Unknown Author"]

\* getPostsByAuthor has returned the empty list for an author who has posts.
C9_Witness ==
    /\ op = "getPostsByAuthor"
    /\ queries[1].error
    /\ ret.value = <<>>
    /\ \E i \in 1..Len(posts) : posts[i].author_id = arg

\* C10: searchPosts never raises; when one of its two searches fails and the
\* other succeeds it returns the posts the other matched, which are the rows
\* of the posts table matching in that column; when both fail it returns the
\* empty list after the two queries.
C10_SearchSurvivesPartialFailure ==
    (op = "searchPosts" /\ Len(queries) >= 2) =>
        LET t == queries[1]
            c == queries[2]
        IN  /\ ~raised
            /\ ret.kind = "list"
            /\ (t.error /\ ~c.error) =>
                    /\ Ids(ret.value) = Ids(c.data)
                    /\ c.data = SelectSeq(posts, LAMBDA p : Matches(p.content, c.filter))
            /\ (c.error /\ ~t.error) =>
                    /\ Ids(ret.value) = Ids(t.data)
                    /\ t.data = SelectSeq(posts, LAMBDA p : Matches(p.title, t.filter))
            /\ (t.error /\ c.error) => ret.value = <<>> /\ Len(queries) = 2

\* searchPosts has returned the content matches although the title search
\* failed.
C10_Witness ==
    /\ op = "searchPosts"
    /\ Len(queries) >= 2
    /\ queries[1].error
    /\ ~queries[2].error
    /\ Len(ret.value) >= 1

\* C11: getPosts, getPostById, getPostsByAuthor and searchPosts never raise,
\* whichever of their queries fail: getPosts, getPostsByAuthor and searchPosts
\* return a list, getPostById a post or null.
C11_ReadsNeverRaise ==
    /\ op \in {"getPosts", "getPostsByAuthor", "searchPosts"} =>
            ~raised /\ ret.kind = "list"
    /\ op = "getPostById" => ~raised /\ ret.kind \in {"post", "null"}

\* getPostsByAuthor has returned although both of its queries failed to
\* deliver: the profile lookup succeeded and the posts query reported an error.
C11_Witness ==
    /\ op = "getPostsByAuthor"
    /\ Len(queries) = 2
    /\ queries[2].error
    /\ ~raised

\* The queries of a call as the store sees them, without their responses.
Issued == [i \in 1..Len(queries) |->
              [table |-> queries[i].table, verb |-> queries[i].verb, filter |-> queries[i].filter]]

\* C12: within one call no query is issued twice, getPosts issues at most 2
\* queries, getPostById at most 4, getPostsByAuthor at most 2, searchPosts at
\* most 3, createPost at most 2 and addComment exactly 1; a failed query is
\* followed by no repetition of it, and only createPost and addComment raise,
\* exactly when their insert failed.
C12_NoRetries ==
    /\ \A i, j \in 1..Len(queries) : i # j => Issued[i] # Issued[j]
    /\ op = "getPosts" => Len(queries) \in 1..2
    /\ op = "getPostById" => Len(queries) \in 1..4
    /\ op = "getPostsByAuthor" => Len(queries) \in 1..2
    /\ op = "searchPosts" => Len(queries) \in 0..3
    /\ op = "createPost" => Len(queries) \in 1..2
    /\ op = "addComment" => Len(queries) = 1
    /\ raised => op \in {"createPost", "addComment"} /\ queries[Len(queries)].error

\* addComment has raised after its one insert failed.
C12_Witness ==
    /\ op = "addComment"
    /\ raised
    /\ Len(queries) = 1
    /\ queries[1].error

\* Whether the profile rows a lookup delivered hold one for id.
Delivered(q, id) == ~q.error /\ \E i \in 1..Len(q.data) : q.data[i].id = id

\* The profile row for id among the rows a lookup delivered.
DeliveredRow(q, id) == q.data[CHOOSE i \in 1..Len(q.data) : q.data[i].id = id]

\* The batch profile lookup of a call, when one was issued as its n-th query.
HasLookup(n) == Len(queries) = n /\ queries[n].table = "profiles"

\* C15: whenever a profile lookup did not deliver the profile a row points to,
\* the row carries a placeholder whose id is that foreign key and whose name
\* is "Unknown Author" in getPosts and searchPosts and "Unknown" for the
\* author and the commenters of getPostById; whenever the lookup delivered the
\* profile, the row carries that profile and no placeholder.
C15_PlaceholdersCarryForeignKey ==
    /\ op \in {"getPosts", "searchPosts"} =>
        LET n == IF op = "getPosts" THEN 2 ELSE 3
        IN  \A i \in 1..Len(ret.value) :
                LET post == ret.value[i]
                IN  IF HasLookup(n) /\ Delivered(queries[n], post.author_id)
                    THEN post.author = DeliveredRow(queries[n], post.author_id)
                    ELSE post.author = [id |-> post.author_id, name |-> "Unknown Author"]
    /\ op = "getPostById" /\ ret.kind = "post" =>
        LET post == ret.value
        IN  /\ IF ~queries[2].error
               THEN post.author = queries[2].data
               ELSE post.author = [id |-> post.author_id, name |-> "Unknown"]
            /\ \A i \in 1..Len(post.comments) :
                LET comment == post.comments[i]
                IN  IF HasLookup(4) /\ Delivered(queries[4], comment.user_id)
                    THEN comment.user = DeliveredRow(queries[4], comment.user_id)
                    ELSE comment.user = [id |-> comment.user_id, name |-> "Unknown"]

\* getPosts has returned one post under its author's profile and another under
\* a placeholder, from a profile lookup that succeeded.
C15_Witness ==
    /\ op = "getPosts"
    /\ Len(queries) = 2
    /\ ~queries[2].error
    /\ \E i, j \in 1..Len(ret.value) :
        /\ Delivered(queries[2], ret.value[i].author_id)
        /\ ret.value[j].author = [id |-> ret.value[j].author_id, name |-> "Unknown Author"]

\* C16: in getPostById, when the comments query fails the post is returned
\* with no comments and its author resolved, and no commenter lookup is
\* issued; when the comments query succeeds and the commenter lookup fails,
\* every comment is returned, in order, each under a placeholder user.
C16_CommentFailuresDegrade ==
    op = "getPostById" /\ Len(queries) >= 3 =>
        /\ queries[3].error =>
            /\ Len(queries) = 3
            /\ ret.kind = "post"
            /\ ret.value.id = arg
            /\ ret.value.comments = <<>>
            /\ ret.value.author = IF queries[2].error
                                  THEN [id |-> ret.value.author_id, name |-> "Unknown"]
                                  ELSE queries[2].data
        /\ Len(queries) = 4 /\ queries[4].error =>
            /\ ret.kind = "post"
            /\ Len(ret.value.comments) = Len(queries[3].data)
            /\ \A i \in 1..Len(queries[3].data) :
                /\ CommentRow(ret.value.comments[i]) = queries[3].data[i]
                /\ ret.value.comments[i].user =
                        [id |-> queries[3].data[i].user_id, name |-> "Unknown"]

\* The commenter lookup has failed for a post with two comments, one of them
\* by a user who has a profile.
C16_Witness ==
    /\ op = "getPostById"
    /\ Len(queries) = 4
    /\ queries[4].error
    /\ Len(queries[3].data) = 2
    /\ \E i \in 1..2 : \E j \in 1..Len(profiles) : profiles[j].id = queries[3].data[i].user_id

\* ------------------------------------------- searchPosts, one await at a time
\* A searchPosts call is suspended at its await Promise.all.
Searching == search # Null /\ op = "none"

\* searchPosts(query) up to its first await: an empty query returns at once;
\* otherwise both searches are issued together, and the store answers each
\* from the rows it holds
SearchIssue ==
    \E query \in SeqsUpTo(QueryChars, MaxQueryLen), faults \in SUBSET {"title", "content"} :
        /\ Idle
        /\ search = Null
        /\ IF IsEmptyQuery(query)
           THEN /\ Finish("searchPosts", query, searchPosts(query, {}))
                /\ UNCHANGED searchVars
           ELSE /\ search' = [query |-> query,
                              title |-> TextSearch("title", FormatQuery(query), "title" \in faults),
                              content |-> TextSearch("content", FormatQuery(query), "content" \in faults)]
                /\ pending' = {"title", "content"}
                /\ arrivals' = <<>>
                /\ UNCHANGED callVars
        /\ UNCHANGED <<storeVars, notSearch>>

\* One of the two searches completes.
SearchArrives ==
    \E which \in pending :
        /\ Searching
        /\ pending' = pending \ {which}
        /\ arrivals' = Append(arrivals, which)
        /\ UNCHANGED <<storeVars, callVars, search, notSearch>>

\* Promise.all resolves once both searches have completed, and searchPosts
\* runs on to its return: merge, profile lookup, join.
SearchMerge ==
    \E fault \in SUBSET {"profiles"} :
        LET results == PromiseAll(search, arrivals)
        IN  /\ Searching
            /\ pending = {}
            /\ Finish("searchPosts", search.query,
                      AfterSearches(FormatQuery(search.query), results[1], results[2], fault))
            /\ UNCHANGED <<storeVars, uiVars>>

\* The caller takes the outcome of the call.
SearchResume ==
    /\ Taken
    /\ UNCHANGED notSearch
    /\ search' = Null
    /\ pending' = {}
    /\ arrivals' = <<>>

\* A post is published while no search is running.
SearchCreatePost == search = Null /\ CreatePost

NextSearch ==
    \/ SearchCreatePost
    \/ SearchIssue
    \/ SearchArrives
    \/ SearchMerge
    \/ SearchResume

SpecSearch == Init /\ [][NextSearch]_vars

\* C14: while either of the two searches of searchPosts is in flight nothing
\* has been merged and no profile lookup issued; once the call has returned,
\* its list holds the title matches followed by the content matches not among
\* them, whichever search completed first, and it is the list the call gives
\* when the searches are taken in array order.
C14_MergeAfterBothSearches ==
    /\ pending # {} => op = "none" /\ queries = <<>> /\ ret.kind = "none"
    /\ op = "searchPosts" /\ search # Null =>
        /\ pending = {}
        /\ Range(arrivals) = {"title", "content"}
        /\ Ids(ret.value) = Ids(MergeById(RowsOrNone(search.title), RowsOrNone(search.content)))
        /\ \E fault \in SUBSET {"profiles"} :
            ret = AfterSearches(FormatQuery(search.query), search.title, search.content, fault).ret

\* The content search completed first, the two searches matched different
\* posts, and the call has returned both.
C14_Witness ==
    /\ op = "searchPosts"
    /\ search # Null
    /\ arrivals = <<"content", "title">>
    /\ ~search.title.error
    /\ ~search.content.error
    /\ Len(ret.value) >= 2
    /\ Ids(search.title.data) # Ids(search.content.data)
    /\ search.title.data # <<>>
    /\ search.content.data # <<>>

\* ---------------------------------------------------------- generateSummary
MinSummarizable == 50           \* content.length < 50 is too short

TooShortText == "Content is too short to generate a meaningful summary."
SummaryErrorText == "There was an error generating the AI summary. Please try again later."
FailedText == "Failed to generate summary."
GeneratedText == "generated summary"        \* a non-empty response.text

\* What the summary service does with a call: the client cannot be built
\* (no API key), the request is rejected, the response has no text, or the
\* response has a text.
Services == {"unconfigured", "rejects", "silent", "answers"}

\* The outcome of an async function: resolved with a value, or rejected.
Resolves(value) == [raised |-> FALSE, value |-> value]
Rejects == [raised |-> TRUE, value |-> Null]

\* Mutant of OnSummaryError: the error is thrown on to the caller.
OnSummaryErrorRethrows == Rejects

\* catch (error) { console.error(...); return 'There was an error ...' }
OnSummaryError == Resolves(SummaryErrorText)

\* generateSummary(content), with the service behaving as `service`
generateSummary(text, service) ==
    IF service = "unconfigured" THEN OnSummaryError
    ELSE IF text = <<>> THEN OnSummaryError
    ELSE IF Len(text) < MinSummarizable THEN Resolves(TooShortText)
    ELSE IF service = "rejects" THEN OnSummaryError
    ELSE IF service = "silent" THEN OnSummaryError
    ELSE Resolves(GeneratedText)

\* ------------------------------------------------------ Editor, EditorPage
\* A text of n characters without white space.
Chars(n) == [i \in 1..n |-> "a"]

EditorTitles == {<<>>, <<" ">>, <<"a">>}
EditorContents == {<<>>, <<" ">>, Chars(MinSummarizable - 1), Chars(MinSummarizable)}
EditorSummaries == {"", "my summary"}

\* How far a handler call has come ("none" when the handler was never called).
Phase(call) == IF call = Null THEN "none" ELSE call.phase

OnEditorPage == location.page = "editor"

\* onChange of the title input
EditTitle ==
    \E value \in EditorTitles :
        /\ OnEditorPage
        /\ title' = value
        /\ UNCHANGED <<content, summary, isSummarizing, isPublishing, summarizeCall, publishCall, location>>
        /\ UNCHANGED <<storeVars, callVars, notEditor>>

\* onChange of the content textarea
EditContent ==
    \E value \in EditorContents :
        /\ OnEditorPage
        /\ content' = value
        /\ UNCHANGED <<title, summary, isSummarizing, isPublishing, summarizeCall, publishCall, location>>
        /\ UNCHANGED <<storeVars, callVars, notEditor>>

\* onChange of the summary textarea
EditSummary ==
    \E value \in EditorSummaries :
        /\ OnEditorPage
        /\ summary' = value
        /\ UNCHANGED <<title, content, isSummarizing, isPublishing, summarizeCall, publishCall, location>>
        /\ UNCHANGED <<storeVars, callVars, notEditor>>

\* handleSummarize up to its await; the button is disabled while isSummarizing
SummarizeClick ==
    /\ OnEditorPage
    /\ ~isSummarizing
    /\ IF content = <<>>
       THEN /\ summarizeCall' = [phase |-> "ended", content |-> content, service |-> "none", generated |-> Null]
            /\ UNCHANGED isSummarizing
       ELSE /\ summarizeCall' = [phase |-> "awaiting", content |-> content, service |-> "none", generated |-> Null]
            /\ isSummarizing' = TRUE
    /\ UNCHANGED <<title, content, summary, isPublishing, publishCall, location>>
    /\ UNCHANGED <<storeVars, callVars, notEditor>>

\* handleSummarize from its await on: try / catch / finally
SummarizeSettles ==
    \E service \in Services :
        LET generated == generateSummary(summarizeCall.content, service)
        IN  /\ OnEditorPage
            /\ Phase(summarizeCall) = "awaiting"
            /\ summary' = IF generated.raised THEN FailedText ELSE generated.value
            /\ isSummarizing' = FALSE
            /\ summarizeCall' = [phase |-> "ended", content |-> summarizeCall.content,
                                 service |-> service, generated |-> generated]
            /\ UNCHANGED <<title, content, isPublishing, publishCall, location>>
            /\ UNCHANGED <<storeVars, callVars, notEditor>>

\* handlePublish up to its await; the button is disabled while isPublishing
PublishClick ==
        /\ OnEditorPage
        /\ ~isPublishing
        /\ IF Trim(title) = <<>> \/ Trim(content) = <<>> \/ user = Null
           THEN /\ publishCall' = [phase |-> "refused", postData |-> Null]
                /\ UNCHANGED isPublishing
           ELSE /\ publishCall' = [phase |-> "awaiting",
                                   postData |-> [title |-> title, content |-> content,
                                                 summary |-> summary, author_id |-> user.id]]
                /\ isPublishing' = TRUE
        /\ UNCHANGED <<title, content, summary, isSummarizing, summarizeCall, location>>
        /\ UNCHANGED <<storeVars, callVars, notEditor>>

\* handlePublish from its await on: createPost returns the created post, or
\* throws and ends the handler where it stands
PublishSettles ==
    \E faults \in SUBSET {"posts", "profiles"} :
        LET postData == publishCall.postData
            out == createPost(postData, faults)
        IN  /\ OnEditorPage
            /\ Phase(publishCall) = "awaiting"
            /\ Finish("createPost", postData, out)
            /\ posts' = IF out.queries[1].error THEN posts ELSE Append(posts, InsertedPost(postData))
            /\ IF out.raised
               THEN /\ publishCall' = [publishCall EXCEPT !.phase = "rejected"]
                    /\ UNCHANGED <<isPublishing, location>>
               ELSE /\ publishCall' = [publishCall EXCEPT !.phase = "ended"]
                    /\ isPublishing' = FALSE
                    /\ location' = [page |-> "post", id |-> out.ret.value.id]
            /\ UNCHANGED <<title, content, summary, isSummarizing, summarizeCall>>
            /\ UNCHANGED <<comments, profiles, notEditor>>

NextEditor ==
    \/ EditTitle
    \/ EditContent
    \/ EditSummary
    \/ SummarizeClick
    \/ SummarizeSettles
    \/ PublishClick
    \/ PublishSettles

\* The editor page opens for a signed-in user: the AuthProvider has settled
\* on the user's profile, or on the fallback when there is none.
InitEditor ==
    /\ InitApp
    /\ ThemeProviderMounts(NoTheme, FALSE, FALSE)
    /\ \E s \in AuthSessions : AuthProviderSettled(s)

SpecEditor == InitEditor /\ [][NextEditor]_vars

\* The summary service failed a call it was asked to serve.
ServiceFailed(call) ==
    \/ call.service = "unconfigured"
    \/ Len(call.content) >= MinSummarizable /\ call.service \in {"rejects", "silent"}

\* C13: generateSummary never raises: every call the editor has made resolved
\* with a string, the error message when the service failed or answered with
\* no text.  Every handleSummarize call that has ended leaves isSummarizing
\* false, and the step that ends a call that awaited generateSummary sets
\* summary to the string generateSummary gave.
C13_SummarizeAlwaysSettles ==
    /\ [](/\ Phase(summarizeCall) = "ended" => ~isSummarizing
          /\ Phase(summarizeCall) = "ended" /\ summarizeCall.generated # Null =>
                /\ ~summarizeCall.generated.raised
                /\ ServiceFailed(summarizeCall) => summarizeCall.generated.value = SummaryErrorText)
    /\ [][Phase(summarizeCall) = "awaiting" /\ Phase(summarizeCall') = "ended" =>
              /\ ~isSummarizing'
              /\ summary' = summarizeCall'.generated.value
              /\ summary' \in {TooShortText, SummaryErrorText, GeneratedText}]_vars

\* A summarize call on a long enough content has ended after the service
\* rejected the request: the summary field shows the error message.
C13_Witness ==
    /\ Phase(summarizeCall) = "ended"
    /\ Len(summarizeCall.content) >= MinSummarizable
    /\ summarizeCall.service = "rejects"
    /\ summary = SummaryErrorText
    /\ ~isSummarizing

\* C19: every handlePublish call that has ended, whether createPost returned
\* or raised, leaves isPublishing false; and the editor is on a post page only
\* when createPost returned the created post, whose page it is.
C19_PublishAlwaysSettles ==
    /\ Phase(publishCall) \in {"refused", "ended", "rejected"} => ~isPublishing
    /\ location.page = "post" =>
        /\ op = "createPost"
        /\ ~raised
        /\ ret.kind = "post"
        /\ location.id = ret.value.id
        /\ \E i \in 1..Len(posts) : posts[i].id = location.id

\* ------------------------------------------------------------ ThemeProvider
MaxToggles == 3

Themes == {"light", "dark"}

\* Mutant of InitialTheme: the stored theme is ignored.
InitialThemePreferred(stored, prefers) == IF prefers THEN "dark" ELSE "light"

\* storedTheme || preferredTheme
InitialTheme(stored, prefers) ==
    IF stored # NoTheme THEN stored
    ELSE IF prefers THEN "dark" ELSE "light"

\* prev => prev === 'light' ? 'dark' : 'light'
Toggled(prev) == IF prev = "light" THEN "dark" ELSE "light"

RECURSIVE Reduce(_, _)
\* The state after the queued updates, applied in order to the state prev.
Reduce(queue, prev) ==
    IF queue = <<>> THEN prev
    ELSE Reduce(Tail(queue),
                IF Head(queue).kind = "toggle" THEN Toggled(prev) ELSE Head(queue).theme)

\* The next pending effect runs: the first reads the stored and the preferred
\* theme and calls setTheme; the second sets or removes the class 'dark' and
\* stores the theme its render saw
ThemeEffect ==
    /\ effects # <<>>
    /\ effects' = Tail(effects)
    /\ IF Head(effects).effect = "init"
       THEN /\ updates' = Append(updates, [kind |-> "set", theme |-> InitialTheme(storedTheme, prefersDark)])
            /\ UNCHANGED <<darkClass, storedTheme>>
       ELSE /\ darkClass' = (Head(effects).theme = "dark")
            /\ storedTheme' = Head(effects).theme
            /\ UNCHANGED updates
    /\ UNCHANGED <<theme, prefersDark, toggles, storedAtMount>>
    /\ UNCHANGED <<storeVars, callVars, notTheme>>

\* The provider renders again with the queued updates applied; the second
\* effect is scheduled when theme changed
ThemeRender ==
    LET rendered == Reduce(updates, theme)
    IN  /\ effects = <<>>
        /\ updates # <<>>
        /\ theme' = rendered
        /\ updates' = <<>>
        /\ effects' = IF rendered # theme THEN <<Effect("sync", rendered)>> ELSE <<>>
        /\ UNCHANGED <<storedTheme, darkClass, prefersDark, toggles, storedAtMount>>
        /\ UNCHANGED <<storeVars, callVars, notTheme>>

\* toggleTheme()
ToggleTheme ==
    /\ toggles < MaxToggles
    /\ toggles' = toggles + 1
    /\ updates' = Append(updates, [kind |-> "toggle", theme |-> theme])
    /\ UNCHANGED <<theme, storedTheme, darkClass, prefersDark, effects, storedAtMount>>
    /\ UNCHANGED <<storeVars, callVars, notTheme>>

\* The provider mounts over any stored theme, system preference and class.
InitTheme ==
    /\ InitApp
    /\ \E stored \in Themes \union {NoTheme}, prefers \in BOOLEAN, class \in BOOLEAN :
            ThemeProviderMounts(stored, prefers, class)
    /\ AuthProviderMounts(Null)

NextTheme ==
    \/ ThemeEffect
    \/ ThemeRender
    \/ ToggleTheme

SpecTheme == InitTheme /\ [][NextTheme]_vars

\* No effect is pending and no update is queued.
ThemeSettled == effects = <<>> /\ updates = <<>>

\* C17: whenever the effects have run and no update is queued, the stored
\* 'theme' value is the theme state and the class 'dark' is set exactly when
\* the theme is 'dark', after any number of toggleTheme calls; and before the
\* first toggle the theme is the one stored before the mount, or the system
\* preference when none was stored.
C17_ThemeStateStoreAndClassAgree ==
    ThemeSettled =>
        /\ storedTheme = theme
        /\ darkClass = (theme = "dark")
        /\ toggles = 0 => theme = IF storedAtMount # NoTheme THEN storedAtMount
                                  ELSE IF prefersDark THEN "dark" ELSE "light"

\* The provider mounted over a stored 'dark' on a system that prefers light,
\* and has settled on 'dark' before any toggle.
C17_Witness ==
    /\ ThemeSettled
    /\ toggles = 0
    /\ storedAtMount = "dark"
    /\ ~prefersDark
    /\ theme = "dark"
    /\ darkClass

\* ------------------------------------------------------------- AuthProvider
MaxAuthEvents == 3

\* setAuthData(s) up to its await: setSession, then the profile lookup is
\* issued for a session with a user, and setUser(null) called otherwise
SetAuthData(s, from) ==
    /\ session' = s
    /\ IF s # Null
       THEN /\ lookups' = lookups \union {[call |-> authEvents + 1, session |-> s, from |-> from]}
            /\ UNCHANGED user
       ELSE /\ user' = Null
            /\ UNCHANGED lookups

\* Someone signs in, or the session is refreshed: the listener is called with
\* the new session
SignedIn ==
    \E s \in AuthSessions :
        /\ authEvents < MaxAuthEvents
        /\ authEvents' = authEvents + 1
        /\ authSession' = s
        /\ SetAuthData(s, "event")
        /\ UNCHANGED <<authLoading, initialSession>>
        /\ UNCHANGED <<storeVars, callVars, notAuth>>

\* logout(): the listener is called with null
SignedOut ==
    /\ authEvents < MaxAuthEvents
    /\ authSession # Null
    /\ authEvents' = authEvents + 1
    /\ authSession' = Null
    /\ SetAuthData(Null, "event")
    /\ UNCHANGED <<authLoading, initialSession>>
    /\ UNCHANGED <<storeVars, callVars, notAuth>>

\* getInitialSession: getSession resolves with the session the client holds
InitialSessionArrives ==
    /\ initialSession = "awaiting"
    /\ SetAuthData(authSession, "initial")
    /\ IF authSession # Null
       THEN initialSession' = "lookup" /\ UNCHANGED authLoading
       ELSE initialSession' = "done" /\ authLoading' = FALSE
    /\ UNCHANGED <<authSession, authEvents>>
    /\ UNCHANGED <<storeVars, callVars, notAuth>>

\* setAuthData from its await on: the profile lookup of one call resolves,
\* with a row or without one, and setUser is called with the profile or the
\* fallback; getInitialSession then calls setLoading(false)
LookupSettles ==
    \E lookup \in lookups, fault \in BOOLEAN :
        LET profile == SelectProfileRowSingle(lookup.session.user, fault).data
        IN  /\ lookups' = lookups \ {lookup}
            /\ user' = IF profile # Null THEN profile ELSE FallbackUser(lookup.session)
            /\ IF lookup.from = "initial"
               THEN initialSession' = "done" /\ authLoading' = FALSE
               ELSE UNCHANGED <<initialSession, authLoading>>
            /\ UNCHANGED <<authSession, session, authEvents>>
            /\ UNCHANGED <<storeVars, callVars, notAuth>>

\* The provider mounts while the client holds any session or none.
InitAuth ==
    /\ InitApp
    /\ ThemeProviderMounts(NoTheme, FALSE, FALSE)
    /\ \E held \in AuthSessions \union {Null} : AuthProviderMounts(held)

NextAuth ==
    \/ SignedIn
    \/ SignedOut
    \/ InitialSessionArrives
    \/ LookupSettles

SpecAuth == InitAuth /\ [][NextAuth]_vars

\* C18: whenever no setAuthData call is in flight, user is null exactly when
\* the session has no user, and otherwise user.id is the id of the session's
\* user, whatever the order of the initial getSession, the auth state changes
\* and the profile lookups.
C18_UserFollowsSession ==
    lookups = {} /\ initialSession = "done" =>
        /\ user = Null <=> session = Null
        /\ user # Null => user.id = session.user

\* ----------------------------------------------------------------- PostPage
MaxFetches == 3

\* fetchPost() up to its await, for the id its render saw
FetchPost(id) ==
    /\ pageLoading' = TRUE
    /\ started' = started + 1
    /\ fetches' = fetches \union {[n |-> started + 1, id |-> id]}

\* The route changes to another post: PostPage renders with the new id and
\* the effect calls the new fetchPost
RouteChanges ==
    \E id \in 1..(Len(posts) + 1) :
        /\ id # routeId
        /\ started < MaxFetches
        /\ routeId' = id
        /\ FetchPost(id)
        /\ UNCHANGED <<shownPost, shownFrom, isSubmitting, commentCall>>
        /\ UNCHANGED <<storeVars, callVars, notPage>>

\* fetchPost from its await on: getPostById of one call returns, and the call
\* sets the post and clears loading
FetchSettles ==
    \E fetch \in fetches, faults \in SUBSET {"post", "author", "comments", "users"} :
        \E ordered \in CommentOrders(fetch.id) :
            /\ fetches' = fetches \ {fetch}
            /\ shownPost' = getPostById(fetch.id, faults, ordered).ret.value
            /\ pageLoading' = FALSE
            /\ shownFrom' = fetch.n
            /\ UNCHANGED <<routeId, started, isSubmitting, commentCall>>
            /\ UNCHANGED <<storeVars, callVars, notPage>>

\* handleCommentSubmit up to its await; the form is shown to a signed-in user
\* once a post is loaded, and the button is disabled while isSubmitting
CommentSubmit ==
    /\ ~pageLoading
    /\ shownPost # Null
    /\ user # Null
    /\ ~isSubmitting
    /\ isSubmitting' = TRUE
    /\ commentCall' = [postId |-> routeId, user_id |-> user.id, text |-> "t"]
    /\ UNCHANGED <<routeId, shownPost, pageLoading, fetches, started, shownFrom>>
    /\ UNCHANGED <<storeVars, callVars, notPage>>

\* handleCommentSubmit from its await on: addComment returns and the post is
\* fetched again, or addComment throws and ends the handler where it stands
CommentSettles ==
    \E faults \in SUBSET {"comments"} : \E at \in CommentStamps :
        LET out == addComment(commentCall, faults, at)
        IN  /\ commentCall # Null
            /\ started < MaxFetches
            /\ commentCall' = Null
            /\ comments' = IF out.queries[1].error THEN comments
                           ELSE Append(comments, InsertedComment(commentCall, at))
            /\ IF out.raised
               THEN UNCHANGED <<isSubmitting, pageLoading, started, fetches>>
               ELSE isSubmitting' = FALSE /\ FetchPost(commentCall.postId)
            /\ UNCHANGED <<routeId, shownPost, shownFrom>>
            /\ UNCHANGED <<posts, profiles, callVars, notPage>>

\* The page opens on a post of a store that holds two posts, for a signed-in
\* user.
InitPage ==
    /\ posts = <<[id |-> 1, title |-> <<"a">>, content |-> <<"a">>, summary |-> "s",
                  author_id |-> "u1", created_at |-> 1],
                 [id |-> 2, title |-> <<"b">>, content |-> <<"a">>, summary |-> "s",
                  author_id |-> "u2", created_at |-> 2]>>
    /\ comments = <<>>
    /\ profiles = <<[id |-> "u1", name |-> "Ann", image |-> "ann.png"]>>
    /\ InitIdle
    /\ ThemeProviderMounts(NoTheme, FALSE, FALSE)
    /\ \E s \in AuthSessions : AuthProviderSettled(s)
    /\ \E id \in 1..3 : PostPageMounts(id)

NextPage ==
    \/ RouteChanges
    \/ FetchSettles
    \/ CommentSubmit
    \/ CommentSettles

SpecPage == InitPage /\ [][NextPage]_vars

\* C20: once no fetchPost call is in flight, the post shown was set by the
\* call started last, whatever the order in which the calls' responses arrive;
\* and loading is false only when no call is in flight.
C20_LatestFetchWins ==
    /\ fetches = {} => shownFrom = started
    /\ ~pageLoading => fetches = {}
====
